---------------------------- MODULE Spec2Model ----------------------------
(***************************************************************************)
(* Model of the two-state explicit-duration HMM engine                     *)
(* (src/mmHMM/common/TwoStateHDHMM.cpp) and of the domain / significance   *)
(* pipeline of src/mmHMM/hmm/cthmm.cpp.                                    *)
(*                                                                         *)
(* Log-domain doubles.  The engine works on logarithms of likelihoods.     *)
(* A log-domain double x is held here by the exact value of exp(x), its    *)
(* weight, written <<n, e, t>> = (n + t * 1e-10) / 2^e in lowest terms:    *)
(* 1e-10 is the termination probability of set_parameters, which is not a  *)
(* dyadic rational and is carried as a symbol.  So                         *)
(*   log(p)              is  Log(p)            (p a dyadic probability),   *)
(*   x + y               is  LogAdd(x, y)      (product of the weights),   *)
(*   x - y               is  LogSub(x, y)      (quotient of the weights),  *)
(*   the literal 0.0     is  ZeroLog = <<1,0,0>> (exp(0.0) = 1),           *)
(*   log_sum_log(x, y)   is  the sum of the weights, the double 0.0 being   *)
(*                           the empty sum.                                *)
(* Where a log-domain double is used as a number (total_score and the      *)
(* convergence test) it is held in fixed point, see LogValue.              *)
(* Array indices are the 0-based indices of the source.                    *)
(***************************************************************************)
EXTENDS Integers, Sequences, FiniteSets, TLC

VARIABLES
  \* ---- TwoStateHDHMM: construction arguments
  observations, reset_points, MAX_LEN, tolerance, max_iterations,
  \* ---- the build: TRUE when assert() is compiled out
  NDEBUG,
  \* ---- TwoStateHDHMM: model parameters
  fg_emission, bg_emission, fg_duration, bg_duration,
  \* ---- TwoStateHDHMM: working arrays
  fg_log_likelihood, bg_log_likelihood, forward, backward,
  fg_posteriors, bg_posteriors,
  \* ---- BaumWelchTraining: loop position, loop counter i, prev_total
  train_pc, itr, prev_total,
  \* ---- number of single_iteration() calls of the current training, and
  \*      what the last pass / M-step computed
  single_iterations, last_pass,
  \* ---- cthmm.cpp main: pipeline position and its vectors
  pc, cpgs, meth, reads, time, classes, scores, domain_scores,
  random_scores, p_values, fdr_cutoff, domains, out,
  \* ---- get_fdr_cutoff called on its own: arguments and results
  fdr_args, fdr_results

hmm_vars == <<observations, reset_points, MAX_LEN, tolerance, max_iterations,
              NDEBUG,
              fg_emission, bg_emission, fg_duration, bg_duration,
              fg_log_likelihood, bg_log_likelihood, forward, backward,
              fg_posteriors, bg_posteriors, train_pc, itr, prev_total,
              single_iterations, last_pass>>
main_vars == <<pc, cpgs, meth, reads, time, classes, scores, domain_scores,
               random_scores, p_values, fdr_cutoff, domains, out>>
fdr_vars == <<fdr_args, fdr_results>>
vars == <<hmm_vars, main_vars, fdr_vars>>

(***************************************************************************)
(* Bounds of the model.                                                    *)
(***************************************************************************)
MaxObs == 3          \* longest observation array
MaxMaxLen == 2       \* largest MAX_LEN passed to the constructor
MaxIter == 2         \* largest max_iterations passed to the constructor
MaxSites == 4        \* records of the file read by load_cpgs
MaxScores == 3       \* longest list given to assign_p_values, get_fdr_cutoff

(***************************************************************************)
(* Exact arithmetic.  A probability is a dyadic rational <<n, e>> =        *)
(* n / 2^e; a weight is <<n, e, t>> = (n + t * 1e-10) / 2^e.               *)
(***************************************************************************)
RECURSIVE Pow2(_)
Pow2(k) == IF k <= 0 THEN 1 ELSE 2 * Pow2(k - 1)

RECURSIVE DNorm(_, _)
DNorm(n, e) ==
  IF n = 0 THEN <<0, 0>>
  ELSE IF e > 0 /\ n % 2 = 0 THEN DNorm(n \div 2, e - 1)
  ELSE <<n, e>>

RECURSIVE WNorm(_, _, _)
WNorm(n, e, t) ==
  IF n = 0 /\ t = 0 THEN <<0, 0, 0>>
  ELSE IF e > 0 /\ n % 2 = 0 /\ t % 2 = 0 THEN WNorm(n \div 2, e - 1, t \div 2)
  ELSE <<n, e, t>>

Max(a, b) == IF a > b THEN a ELSE b
Min(a, b) == IF a < b THEN a ELSE b

\* log(p) of a dyadic probability p
Log(p) == WNorm(p[1], p[2], 0)

\* the two numerators of the weight w at exponent e (e >= w[2])
WAt(w, e) == <<w[1] * Pow2(e - w[2]), w[3] * Pow2(e - w[2])>>

\* the sum of two weights
WSum(a, b) ==
  LET e == Max(a[2], b[2])
      x == WAt(a, e)
      y == WAt(b, e)
  IN WNorm(x[1] + y[1], e, x[2] + y[2])

\* x + y on log-domain doubles: no two operands of the engine both carry
\* the termination probability, so the product has no term in 1e-10^2
LogAdd(x, y) == WNorm(x[1] * y[1], x[2] + y[2], x[1] * y[3] + x[3] * y[1])
\* x - y on log-domain doubles; y is a sum of emission log-likelihoods,
\* whose weight is a power of two
LogSub(x, y) ==
  IF x[2] >= y[2] THEN WNorm(x[1], x[2] - y[2], x[3])
  ELSE WNorm(x[1] * Pow2(y[2] - x[2]), 0, x[3] * Pow2(y[2] - x[2]))
\* the double 0.0
ZeroLog == <<1, 0, 0>>

LogAdd3(x, y, z) == LogAdd(LogAdd(x, y), z)
LogAdd4(x, y, z, w) == LogAdd(LogAdd3(x, y, z), w)


(***************************************************************************)
(* External collaborators of the engine: the beta-binomial emission family *)
(* (betabin) and the duration family (Distro) are used through their       *)
(* interface only.                                                         *)
(***************************************************************************)
\* an observation is the pair (methylated count, unmethylated count)
ObsValues == {<<9, 1>>, <<1, 9>>}
\* a betabin is held by its parameter pair <<alpha, beta>>
\* a Distro is held by its first parameter p = get_params().front(),
\* a dyadic probability
DurationParams == {<<1, 1>>, <<1, 2>>}
\* the (foreground, background) emission models given to set_parameters
EmissionArgs == {<<<<1, 2>>, <<2, 1>>>>, <<<<2, 1>>, <<1, 2>>>>}
\* the (foreground, background) emission models that betabin::fit can give
EmissionFits == EmissionArgs
\* the (foreground, background) duration models given to set_parameters
DurationArgs == {<<<<1, 2>>, <<1, 1>>>>}
\* a default-constructed betabin / Distro (before set_parameters)
NoParams == <<0, 0>>

\* betabin::operator()(observation): log-likelihood of one observation.
\* 1/2 when the model's mean lies on the observation's side, 1/4 otherwise.
emission_ll(em, obs) ==
  IF (em[1] > em[2]) = (obs[1] > obs[2]) THEN Log(<<1, 1>>) ELSE Log(<<1, 2>>)

OneMinus(p) == DNorm(Pow2(p[2]) - p[1], p[2])

\* Distro::log_likelihood(l): log of the geometric density p (1-p)^(l-1)
RECURSIVE duration_ll(_, _)
duration_ll(dur, l) ==
  IF l <= 1 THEN Log(dur)
  ELSE LogAdd(Log(OneMinus(dur)), duration_ll(dur, l - 1))

\* log_sum_log(p, q) = log(exp(p) + exp(q)), the numerically stable
\* log-sum-exp.  The engine seeds every accumulator it sums into with the
\* double 0.0 (forward table, fg_evidence, accu_evidence) and asserts that
\* the forward and the backward total agree: an argument that is exactly
\* 0.0 stands for the empty sum, and the other argument is returned
log_sum_log(p, q) ==
  IF p = ZeroLog THEN q
  ELSE IF q = ZeroLog THEN p
  ELSE WSum(p, q)

(***************************************************************************)
(* set_parameters: the four start / termination log-probabilities.         *)
(***************************************************************************)
\* log(0.5), log(0.5), log(1e-10), log(1e-10)
lp_sf == Log(<<1, 1>>)
lp_sb == Log(<<1, 1>>)
lp_ft == <<0, 0, 1>>
lp_bt == <<0, 0, 1>>

N == Len(observations)
Idx == 0 .. (N - 1)
obs_at(i) == observations[i + 1]

(***************************************************************************)
(* update_observation_likelihood: prefix sums of emission log-likelihoods. *)
(***************************************************************************)
RECURSIVE prefix_ll(_, _)
prefix_ll(em, i) ==
  IF i = 0 THEN emission_ll(em, obs_at(0))
  ELSE LogAdd(prefix_ll(em, i - 1), emission_ll(em, obs_at(i)))

observation_likelihood(em) == [i \in Idx |-> prefix_ll(em, i)]

fg_segment_log_likelihood(start, end) ==
  IF start = 0 THEN fg_log_likelihood[end - 1]
  ELSE LogSub(fg_log_likelihood[end - 1], fg_log_likelihood[start - 1])

bg_segment_log_likelihood(start, end) ==
  IF start = 0 THEN bg_log_likelihood[end - 1]
  ELSE LogSub(bg_log_likelihood[end - 1], bg_log_likelihood[start - 1])

self_lp == Log(OneMinus(bg_duration))
switch_lp == Log(bg_duration)

Pair(a, b) == [first |-> a, second |-> b]
\* variant: the table reused without clearing [start, end)
stale_table(t, start, end) == t

\* std::fill(t.begin() + start, t.begin() + end, make_pair(0.0, 0.0))
Fill(t, start, end) ==
  [k \in DOMAIN t |->
     IF start <= k /\ k < end THEN Pair(ZeroLog, ZeroLog) ELSE t[k]]

(***************************************************************************)
(* forward_algorithm(start, end)                                           *)
(***************************************************************************)
\* variant: the forward segment loop not capped by MAX_LEN
fwd_uncapped(i, start) == i - start + 2

\* the bound max_len of the inner loop at position i
fwd_max_len(i, start) == Min(i - start + 1, MAX_LEN) + 1

\* the inner loop over l, from l up to max_len - 1, accumulating into acc
RECURSIVE fwd_fg_loop(_, _, _, _, _)
fwd_fg_loop(fwd, i, start, l, acc) ==
  IF l >= fwd_max_len(i, start) THEN acc
  ELSE
    LET beginning == i - l + 1
        ending == i + 1
        fg_seg_llh ==
          IF beginning = start
          THEN LogAdd3(lp_sf, fg_segment_log_likelihood(beginning, ending),
                       duration_ll(fg_duration, l))
          ELSE LogAdd4(fwd[beginning - 1].second, switch_lp,
                       fg_segment_log_likelihood(beginning, ending),
                       duration_ll(fg_duration, l))
    IN fwd_fg_loop(fwd, i, start, l + 1, log_sum_log(acc, fg_seg_llh))

RECURSIVE fwd_loop(_, _, _, _)
fwd_loop(fwd, i, start, end) ==
  IF i >= end THEN fwd
  ELSE
    LET first == fwd_fg_loop(fwd, i, start, 1, fwd[i].first)
        second == LogAdd(log_sum_log(fwd[i - 1].first,
                                     LogAdd(fwd[i - 1].second, self_lp)),
                         bg_segment_log_likelihood(i, i + 1))
    IN fwd_loop([fwd EXCEPT ![i] = Pair(first, second)], i + 1, start, end)

\* the forward table after forward_algorithm(start, end)
forward_table(fwd, start, end) ==
  LET filled == Fill(fwd, start, end)
      init == [filled EXCEPT ![start] =
                 Pair(LogAdd3(lp_sf, fg_segment_log_likelihood(start, start + 1),
                              duration_ll(fg_duration, 1)),
                      LogAdd(lp_sb, bg_segment_log_likelihood(start, start + 1)))]
  IN fwd_loop(init, start + 1, start, end)

\* the value forward_algorithm(start, end) returns
forward_score(fwd, end) ==
  log_sum_log(LogAdd(fwd[end - 1].first, lp_ft),
              LogAdd(fwd[end - 1].second, lp_bt))

\* the segments [beginning, ending) forward_algorithm(start, end) scores
forward_segments(start, end) ==
  {<<start, start + 1>>} \cup
  UNION {{<<i - l + 1, i + 1>> : l \in 1 .. (fwd_max_len(i, start) - 1)} :
           i \in (start + 1) .. (end - 1)}

(***************************************************************************)
(* backward_algorithm(start, end)                                          *)
(***************************************************************************)
\* the bound max_len of the inner loop at position i
bwd_max_len(i, end) == Min(end - i - 1, MAX_LEN) + 1
\* the bound max_len of the final loop (the first segment is foreground)
\* variant: the first position's segment loop not capped by MAX_LEN
bwd_first_uncapped(start, end) == end - start + 1

bwd_first_max_len(start, end) == Min(end - start, MAX_LEN) + 1

RECURSIVE bwd_fg_loop(_, _, _, _, _)
bwd_fg_loop(bwd, i, end, l, acc) ==
  IF l >= bwd_max_len(i, end) THEN acc
  ELSE
    LET beginning == i + 1
        ending == i + l + 1
        fg_seg_llh ==
          LogAdd4(switch_lp, fg_segment_log_likelihood(beginning, ending),
                  duration_ll(fg_duration, l), bwd[ending - 1].first)
    IN bwd_fg_loop(bwd, i, end, l + 1, log_sum_log(acc, fg_seg_llh))

RECURSIVE bwd_loop(_, _, _, _)
bwd_loop(bwd, i, start, end) ==
  IF i < start THEN bwd
  ELSE
    LET first == LogAdd(bg_segment_log_likelihood(i + 1, i + 2),
                        bwd[i + 1].second)
        stay == LogAdd3(self_lp, bg_segment_log_likelihood(i + 1, i + 2),
                        bwd[i + 1].second)
        second == bwd_fg_loop(bwd, i, end, 1, stay)
    IN bwd_loop([bwd EXCEPT ![i] = Pair(first, second)], i - 1, start, end)

\* the backward table after backward_algorithm(start, end)
backward_table(bwd, start, end) ==
  LET filled == Fill(bwd, start, end)
      init == [filled EXCEPT ![end - 1] = Pair(lp_ft, lp_bt)]
  IN bwd_loop(init, end - 2, start, end)

RECURSIVE bwd_first_loop(_, _, _, _, _)
bwd_first_loop(bwd, start, end, l, llh) ==
  IF l >= bwd_first_max_len(start, end) THEN llh
  ELSE
    LET beginning == start
        ending == start + l
        fg_seg_llh ==
          LogAdd4(lp_sf, fg_segment_log_likelihood(beginning, ending),
                  duration_ll(fg_duration, l), bwd[ending - 1].first)
    IN bwd_first_loop(bwd, start, end, l + 1, log_sum_log(llh, fg_seg_llh))

\* the value backward_algorithm(start, end) returns
backward_score(bwd, start, end) ==
  bwd_first_loop(bwd, start, end, 1,
                 LogAdd3(lp_sb, bg_segment_log_likelihood(start, start + 1),
                         bwd[start].second))

\* the segments [beginning, ending) backward_algorithm(start, end) scores
backward_segments(start, end) ==
  UNION {{<<i + 1, i + l + 1>> : l \in 1 .. (bwd_max_len(i, end) - 1)} :
           i \in start .. (end - 2)}
  \cup {<<start, start + l>> : l \in 1 .. (bwd_first_max_len(start, end) - 1)}

(***************************************************************************)
(* estimate_state_posterior(start, end)                                    *)
(***************************************************************************)
\* the first value of e in the inner loop at segment start s
post_first_e(s, end) == Min(s + MAX_LEN, end)

\* the inner loop over e, downwards from e to s + 1
RECURSIVE post_e_loop(_, _, _, _, _, _, _)
post_e_loop(fwd, bwd, fg_evidence, s, start, e, accu_evidence) ==
  IF e <= s THEN fg_evidence
  ELSE
    LET evidence ==
          IF s = start
          THEN LogAdd4(lp_sf, duration_ll(fg_duration, e - s),
                       fg_segment_log_likelihood(s, e), bwd[e - 1].first)
          ELSE LogAdd(LogAdd4(fwd[s - 1].second, switch_lp,
                              duration_ll(fg_duration, e - s),
                              fg_segment_log_likelihood(s, e)),
                      bwd[e - 1].first)
        accu == log_sum_log(accu_evidence, evidence)
        k == e - 1 - start
    IN post_e_loop(fwd, bwd,
                   [fg_evidence EXCEPT ![k] = log_sum_log(@, accu)],
                   s, start, e - 1, accu)

RECURSIVE post_s_loop(_, _, _, _, _, _)
post_s_loop(fwd, bwd, fg_evidence, s, start, end) ==
  IF s >= end THEN fg_evidence
  ELSE post_s_loop(fwd, bwd,
                   post_e_loop(fwd, bwd, fg_evidence, s, start,
                               post_first_e(s, end), ZeroLog),
                   s + 1, start, end)

\* fg_evidence and bg_evidence after the first loop (indexed from 0)
fg_evidence_of(fwd, bwd, start, end) ==
  post_s_loop(fwd, bwd, [k \in 0 .. (end - start - 1) |-> ZeroLog],
              start, start, end)
bg_evidence_of(fwd, bwd, start, end) ==
  [k \in 0 .. (end - start - 1) |->
     LogAdd(fwd[start + k].second, bwd[start + k].second)]

RECURSIVE GCD(_, _)
GCD(a, b) == IF b = 0 THEN a ELSE GCD(b, a % b)

\* exp(x - y), a probability: the quotient of two weights, held as
\* <<n, nt, d, dt>> = (n + nt * 1e-10) / (d + dt * 1e-10) in lowest terms
\* (a factor 1e-10 common to both weights cancels)
ExpDiff(x, y) ==
  LET e == Max(x[2], y[2])
      a == WAt(x, e)
      b == WAt(y, e)
      g == GCD(GCD(a[1], a[2]), GCD(b[1], b[2]))
  IN IF a[1] = 0 /\ b[1] = 0
     THEN <<a[2] \div g, 0, b[2] \div g, 0>>
     ELSE <<a[1] \div g, a[2] \div g, b[1] \div g, b[2] \div g>>

\* a < b on fractions with positive denominators (by continued fractions)
RECURSIVE FracLess(_, _)
FracLess(a, b) ==
  LET qa == a[1] \div a[2]
      qb == b[1] \div b[2]
      ra == a[1] % a[2]
      rb == b[1] % b[2]
  IN IF qa # qb THEN qa < qb
     ELSE IF rb = 0 THEN FALSE
     ELSE IF ra = 0 THEN TRUE
     ELSE FracLess(<<b[2], rb>>, <<a[2], ra>>)

\* a < b on probabilities <<n, nt, d, dt>> whose denominators have d > 0:
\* the parts free of 1e-10 decide, n(a)/d(a) against n(b)/d(b); when they
\* are equal the cross products are compared coefficient by coefficient
\* (the coefficients are far below 1e10)
PostLess(a, b) ==
  IF FracLess(<<a[1], a[3]>>, <<b[1], b[3]>>) THEN TRUE
  ELSE IF FracLess(<<b[1], b[3]>>, <<a[1], a[3]>>) THEN FALSE
  ELSE LET l == <<a[1] * b[4] + a[2] * b[3], a[2] * b[4]>>
           r == <<b[1] * a[4] + b[2] * a[3], b[2] * a[4]>>
       IN \/ l[1] < r[1]
          \/ l[1] = r[1] /\ l[2] < r[2]

\* the posteriors estimate_state_posterior(start, end) writes into
\* fg_posteriors / bg_posteriors (entries outside [start, end) are kept)
state_posterior(fwd, bwd, post, start, end) ==
  LET fg_evidence == fg_evidence_of(fwd, bwd, start, end)
      bg_evidence == bg_evidence_of(fwd, bwd, start, end)
      denom(i) == log_sum_log(fg_evidence[i - start], bg_evidence[i - start])
  IN [fg |-> [i \in DOMAIN post.fg |->
                IF start <= i /\ i < end
                THEN ExpDiff(fg_evidence[i - start], denom(i))
                ELSE post.fg[i]],
      bg |-> [i \in DOMAIN post.bg |->
                IF start <= i /\ i < end
                THEN ExpDiff(bg_evidence[i - start], denom(i))
                ELSE post.bg[i]]]

\* the segments [s, e) estimate_state_posterior(start, end) scores
posterior_segments(start, end) ==
  UNION {{<<s, e>> : e \in (s + 1) .. post_first_e(s, end)} :
           s \in start .. (end - 1)}

(***************************************************************************)
(* The loop over the subsequences shared by single_iteration and           *)
(* PosteriorDecoding: forward, backward, posterior, total_score.           *)
(***************************************************************************)
\* A log-domain double as a number: the logarithm of its weight in fixed
\* point, in units of 2^-LogBits of the binary logarithm (the double is
\* this value times ln 2 / 2^LogBits; a quotient of two such doubles, as
\* in the convergence test, is the quotient of the two values).
LogBits == 16
\* fractional bits of the mantissa, split in two halves for squaring
MantBits == 20
HalfBits == 10
\* 1.0 in the three fixed-point formats
LogUnit == Pow2(LogBits)
MantUnit == Pow2(MantBits)
HalfUnit == Pow2(HalfBits)

RECURSIVE FloorLog2(_)
FloorLog2(n) == IF n <= 1 THEN 0 ELSE 1 + FloorLog2(n \div 2)

\* n / 2^FloorLog2(n), in [1, 2), to MantBits fractional bits
Mantissa(n) ==
  LET k == FloorLog2(n)
  IN IF k <= MantBits THEN n * Pow2(MantBits - k)
     ELSE n \div Pow2(k - MantBits)

\* floor(m * m / 2^MantBits), the square of a mantissa
MantSquare(m) ==
  LET h == m \div HalfUnit
      l == m % HalfUnit
  IN h * h + (2 * h * l + (l * l) \div HalfUnit) \div HalfUnit

\* the first `bits` fractional binary digits of log2 of the mantissa m,
\* by repeated squaring
RECURSIVE FracLog2(_, _, _)
FracLog2(m, bits, acc) ==
  IF bits = 0 THEN acc
  ELSE LET sq == MantSquare(m)
       IN IF sq >= 2 * MantUnit
          THEN FracLog2(sq \div 2, bits - 1, 2 * acc + 1)
          ELSE FracLog2(sq, bits - 1, 2 * acc)

\* log2(n) for an integer n >= 1
FixLog2(n) == FloorLog2(n) * LogUnit + FracLog2(Mantissa(n), LogBits, 0)

\* log2(1e-10) = -33.21928094887...
Log2TermProb == -2177059

\* the value of the double x: the part t * 1e-10 of a weight with n > 0 is
\* below the resolution
LogValue(x) ==
  IF x[1] > 0 THEN FixLog2(x[1]) - x[2] * LogUnit
  ELSE FixLog2(x[3]) + Log2TermProb - x[2] * LogUnit

Tagged(pass, start, end, segs) ==
  {<<pass, start, end, sg[1], sg[2]>> : sg \in segs}

\* assert(fabs((forward_score - backward_score)
\*             / max(forward_score, backward_score)) < 1e-10)
scores_agree(forward_sc, backward_sc) == forward_sc = backward_sc

\* st: the tables, the posteriors, the scores of the subsequences done so
\* far, the segments scored, total_score, and whether the assertion on the
\* two scores of a subsequence failed (the process is then aborted)
RECURSIVE subsequence_loop(_, _)
subsequence_loop(st, i) ==
  IF i >= Len(reset_points) - 1 THEN st
  ELSE
    LET start == reset_points[i + 1]
        end == reset_points[i + 2]
        fwd == forward_table(st.forward, start, end)
        forward_sc == forward_score(fwd, end)
        bwd == backward_table(st.backward, start, end)
        backward_sc == backward_score(bwd, start, end)
        post == state_posterior(fwd, bwd, st.post, start, end)
        two_passes ==
          st.scored
             \cup Tagged("forward", start, end, forward_segments(start, end))
             \cup Tagged("backward", start, end, backward_segments(start, end))
    IN IF ~NDEBUG /\ ~scores_agree(forward_sc, backward_sc)
       THEN [forward |-> fwd, backward |-> bwd, post |-> st.post,
             forward_scores |-> Append(st.forward_scores, forward_sc),
             backward_scores |-> Append(st.backward_scores, backward_sc),
             scored |-> two_passes,
             total_score |-> st.total_score, aborted |-> TRUE]
       ELSE subsequence_loop(
         [forward |-> fwd, backward |-> bwd, post |-> post,
          forward_scores |-> Append(st.forward_scores, forward_sc),
          backward_scores |-> Append(st.backward_scores, backward_sc),
          scored |-> two_passes
             \cup Tagged("posterior", start, end, posterior_segments(start, end)),
          total_score |-> st.total_score + LogValue(forward_sc),
          aborted |-> FALSE],
         i + 1)

all_subsequences ==
  subsequence_loop(
    [forward |-> forward, backward |-> backward,
     post |-> [fg |-> fg_posteriors, bg |-> bg_posteriors],
     forward_scores |-> <<>>, backward_scores |-> <<>>, scored |-> {},
     total_score |-> 0, aborted |-> FALSE],
    0)

(***************************************************************************)
(* estimate_parameters: the run lengths of the hard labels.                *)
(***************************************************************************)
\* fg_posteriors[i] > bg_posteriors[i]
hard_label(post, i) == PostLess(post.bg[i], post.fg[i])

\* the inner loop over i; ls = [fg |-> fg_lengths, bg |-> bg_lengths]
RECURSIVE run_loop(_, _, _, _, _, _)
run_loop(post, ls, i, end, prev_state, len) ==
  IF i >= end THEN ls
  ELSE
    LET state == hard_label(post, i)
    IN IF state = prev_state
       THEN run_loop(post, ls, i + 1, end, prev_state, len + 1)
       ELSE run_loop(post,
                     IF prev_state
                     THEN [ls EXCEPT !.fg = Append(@, len)]
                     ELSE [ls EXCEPT !.bg = Append(@, len)],
                     i + 1, end, state, 1)

RECURSIVE lengths_loop(_, _, _)
lengths_loop(post, ls, idx) ==
  IF idx >= Len(reset_points) - 1 THEN ls
  ELSE
    LET start == reset_points[idx + 1]
        end == reset_points[idx + 2]
    IN lengths_loop(post,
                    run_loop(post, ls, start + 1, end,
                             hard_label(post, start), 1),
                    idx + 1)

run_lengths(post) == lengths_loop(post, [fg |-> <<>>, bg |-> <<>>], 0)

RECURSIVE SumSeq(_)
SumSeq(q) == IF q = <<>> THEN 0 ELSE Head(q) + SumSeq(Tail(q))

\* Distro::estimate_params_ml(lengths): the maximum-likelihood geometric
\* parameter count / sum, taken to the nearer of the two duration models;
\* an empty sample gives no estimate
estimate_params_ml(lengths) ==
  IF lengths = <<>> THEN NoParams
  ELSE IF 3 * SumSeq(lengths) < 8 * Len(lengths) THEN <<1, 1>>
  ELSE <<1, 2>>

\* variant: the estimator called without the size guard
unguarded_refit(dur, lengths) == estimate_params_ml(lengths)

\* "if (lengths.size() > 0) duration.estimate_params_ml(lengths)"
duration_refit(dur, lengths) ==
  IF Len(lengths) > 0 THEN estimate_params_ml(lengths) ELSE dur

(***************************************************************************)
(* The engine as a state machine.                                          *)
(***************************************************************************)
\* -std::numeric_limits<double>::max()
NegDblMax == -2147483647
\* tolerances passed to the constructor, as fractions
Tolerances == {<<1, 100>>}

Abs(x) == IF x < 0 THEN 0 - x ELSE x

RECURSIVE SortedSeq(_)
SortedSeq(S) ==
  IF S = {} THEN <<>>
  ELSE LET m == CHOOSE x \in S : \A y \in S : x <= y
       IN <<m>> \o SortedSeq(S \ {m})

\* reset points: strictly increasing, first = 0, last = n
ResetPoints(n) == {SortedSeq({0, n} \cup I) : I \in SUBSET (1 .. (n - 1))}

\* observation arrays of MaxObs sites; exchanging the two observation
\* values and the two emission models is a symmetry of the engine, so the
\* first site is fixed
ObservationArrays == {o \in [1 .. MaxObs -> ObsValues] : o[1] = <<9, 1>>}

NoPass ==
  [kind |-> "none", forward_scores |-> <<>>, backward_scores |-> <<>>,
   scored |-> {}, fg_lengths |-> <<>>, bg_lengths |-> <<>>,
   old |-> <<>>, refit |-> <<>>, total |-> 0, converged |-> FALSE,
   stale |-> FALSE]

Parameters ==
  [fg_emission |-> fg_emission, bg_emission |-> bg_emission,
   fg_duration |-> fg_duration, bg_duration |-> bg_duration]

\* the constructor
InitHMM ==
  /\ observations \in ObservationArrays
  /\ reset_points \in ResetPoints(Len(observations))
  /\ MAX_LEN \in 1 .. MaxMaxLen
  /\ tolerance \in Tolerances
  /\ max_iterations \in 0 .. MaxIter
  /\ NDEBUG \in BOOLEAN
  /\ fg_emission = NoParams /\ bg_emission = NoParams
  /\ fg_duration = NoParams /\ bg_duration = NoParams
  /\ fg_log_likelihood = [i \in Idx |-> ZeroLog]
  /\ bg_log_likelihood = [i \in Idx |-> ZeroLog]
  /\ forward = [i \in Idx |-> Pair(ZeroLog, ZeroLog)]
  /\ backward = [i \in Idx |-> Pair(ZeroLog, ZeroLog)]
  /\ fg_posteriors = [i \in Idx |-> <<0, 0, 1, 0>>]
  /\ bg_posteriors = [i \in Idx |-> <<0, 0, 1, 0>>]
  /\ train_pc = "idle" /\ itr = 0 /\ prev_total = 0
  /\ single_iterations = 0
  /\ last_pass = NoPass

\* train_pc, itr, prev_total and single_iterations describe the call of
\* BaumWelchTraining in progress or just returned; any other call of the
\* engine leaves no training to describe
NoTraining ==
  train_pc = "idle" /\ itr = 0 /\ prev_total = 0 /\ single_iterations = 0

forget_training ==
  train_pc' = "idle" /\ itr' = 0 /\ prev_total' = 0 /\ single_iterations' = 0

\* the engine is not being used
IdleHMM ==
  /\ observations = <<>> /\ reset_points = <<>> /\ MAX_LEN = 0
  /\ tolerance = <<0, 1>> /\ max_iterations = 0 /\ NDEBUG = FALSE
  /\ fg_emission = NoParams /\ bg_emission = NoParams
  /\ fg_duration = NoParams /\ bg_duration = NoParams
  /\ fg_log_likelihood = <<>> /\ bg_log_likelihood = <<>>
  /\ forward = <<>> /\ backward = <<>>
  /\ fg_posteriors = <<>> /\ bg_posteriors = <<>>
  /\ NoTraining
  /\ last_pass = NoPass

config_vars ==
  <<observations, reset_points, MAX_LEN, tolerance, max_iterations, NDEBUG>>
table_vars == <<forward, backward, fg_posteriors, bg_posteriors>>
train_vars == <<train_pc, itr, prev_total, single_iterations>>

\* set_parameters(_fg_emission, _bg_emission, _fg_duration, _bg_duration)
set_parameters(fe, be, fd, bd) ==
  /\ train_pc \notin {"running", "aborted"}
  /\ fg_emission' = fe /\ bg_emission' = be
  /\ fg_duration' = fd /\ bg_duration' = bd
  /\ fg_log_likelihood' = observation_likelihood(fe)
  /\ bg_log_likelihood' = observation_likelihood(be)
  /\ forget_training
  /\ last_pass' = NoPass
  /\ UNCHANGED <<config_vars, table_vars>>

\* (total - prev_total)/std::fabs(total) < tolerance; with prev_total =
\* -DBL_MAX the quotient is at least DBL_MAX / |total|, above any tolerance
converged(total, prev, tol) ==
  IF prev = NegDblMax THEN FALSE
  ELSE IF total = 0 THEN total - prev < 0
  ELSE (total - prev) * tol[2] < tol[1] * Abs(total)

\* variant: no rollback, the refit is kept
refit_kept(conv, old, refit) == refit

\* the parameters the engine holds at the end of the loop body
kept_parameters(conv, old, refit) == IF conv THEN old ELSE refit

\* variant: the rollback without its update_observation_likelihood()
refit_model(conv, old_emission, refit_emission) == refit_emission

\* the emission model the likelihood arrays hold at the end of the loop
\* body: estimate_parameters rebuilt them from the refit, the rollback
\* rebuilds them from the restored model
likelihood_model(conv, old_emission, refit_emission) ==
  IF conv THEN old_emission ELSE refit_emission

\* variant: the loop counter not advanced
same_itr(i) == i

\* ++i
next_itr(i) == i + 1

\* the likelihood arrays are not the prefix sums of the emission models held
stale_likelihood ==
  \/ fg_log_likelihood # observation_likelihood(fg_emission)
  \/ bg_log_likelihood # observation_likelihood(bg_emission)

\* BaumWelchTraining(), up to the first test of the loop condition
BaumWelchTraining ==
  /\ train_pc \in {"idle", "converged", "max_iterations_reached"}
  /\ fg_emission # NoParams
  /\ prev_total' = NegDblMax
  /\ itr' = 0
  /\ single_iterations' = 0
  /\ train_pc' = IF 0 < max_iterations THEN "running"
                 ELSE "max_iterations_reached"
  /\ UNCHANGED <<config_vars, fg_emission, bg_emission, fg_duration,
                 bg_duration, fg_log_likelihood, bg_log_likelihood,
                 table_vars, last_pass>>

\* what is known of a pass that the assertion on the two scores aborted
aborted_pass(P) ==
  [kind |-> "aborted", forward_scores |-> P.forward_scores,
   backward_scores |-> P.backward_scores, scored |-> P.scored,
   fg_lengths |-> <<>>, bg_lengths |-> <<>>,
   old |-> Parameters, refit |-> Parameters, total |-> P.total_score,
   converged |-> FALSE, stale |-> stale_likelihood]

\* one pass through the body of the loop of BaumWelchTraining:
\* single_iteration(), the convergence test, the loop condition
training_iteration ==
  /\ train_pc = "running"
  /\ itr < max_iterations
  /\ \E P \in {all_subsequences} :
     \E ls \in {run_lengths(P.post)} :
     \E fit \in EmissionFits :
       LET old == Parameters
           total == P.total_score
           conv == converged(total, prev_total, tolerance)
           refit == [fg_emission |-> fit[1], bg_emission |-> fit[2],
                     fg_duration |-> duration_refit(fg_duration, ls.fg),
                     bg_duration |-> duration_refit(bg_duration, ls.bg)]
           kept == kept_parameters(conv, old, refit)
       IN /\ forward' = P.forward /\ backward' = P.backward
          /\ fg_posteriors' = P.post.fg /\ bg_posteriors' = P.post.bg
          /\ single_iterations' = single_iterations + 1
          /\ IF P.aborted
             THEN /\ train_pc' = "aborted"
                  /\ last_pass' = aborted_pass(P)
                  /\ UNCHANGED <<fg_emission, bg_emission, fg_duration,
                                 bg_duration, fg_log_likelihood,
                                 bg_log_likelihood, prev_total, itr>>
             ELSE /\ fg_emission' = kept.fg_emission
                  /\ bg_emission' = kept.bg_emission
                  /\ fg_duration' = kept.fg_duration
                  /\ bg_duration' = kept.bg_duration
                  /\ fg_log_likelihood' = observation_likelihood(
                        likelihood_model(conv, old.fg_emission, refit.fg_emission))
                  /\ bg_log_likelihood' = observation_likelihood(
                        likelihood_model(conv, old.bg_emission, refit.bg_emission))
                  /\ prev_total' = IF conv THEN prev_total ELSE total
                  /\ itr' = IF conv THEN itr ELSE next_itr(itr)
                  /\ train_pc' = IF conv THEN "converged"
                                 ELSE IF next_itr(itr) < max_iterations THEN "running"
                                 ELSE "max_iterations_reached"
                  /\ last_pass' =
                       [kind |-> "train", forward_scores |-> P.forward_scores,
                        backward_scores |-> P.backward_scores, scored |-> P.scored,
                        fg_lengths |-> ls.fg, bg_lengths |-> ls.bg,
                        old |-> old, refit |-> refit, total |-> total,
                        converged |-> conv, stale |-> stale_likelihood]
  /\ UNCHANGED config_vars

\* PosteriorDecoding()
PosteriorDecoding ==
  /\ train_pc \notin {"running", "aborted"}
  /\ fg_emission # NoParams
  /\ \E P \in {all_subsequences} :
        /\ forward' = P.forward /\ backward' = P.backward
        /\ fg_posteriors' = P.post.fg /\ bg_posteriors' = P.post.bg
        /\ IF P.aborted
           THEN /\ last_pass' = aborted_pass(P)
                /\ train_pc' = "aborted" /\ itr' = 0 /\ prev_total' = 0
                /\ single_iterations' = 0
           ELSE /\ last_pass' =
                     [kind |-> "decode", forward_scores |-> P.forward_scores,
                      backward_scores |-> P.backward_scores,
                      scored |-> P.scored,
                      fg_lengths |-> <<>>, bg_lengths |-> <<>>,
                      old |-> Parameters, refit |-> Parameters,
                      total |-> P.total_score, converged |-> FALSE,
                      stale |-> stale_likelihood]
                /\ forget_training
  /\ UNCHANGED <<config_vars, fg_emission, bg_emission, fg_duration,
                 bg_duration, fg_log_likelihood, bg_log_likelihood>>

\* main's vectors of sites and what is decoded and built from them
NoSites ==
  /\ cpgs = <<>> /\ meth = <<>> /\ reads = <<>> /\ time = <<>>
  /\ classes = <<>> /\ scores = <<>> /\ domains = <<>> /\ out = <<>>

\* cthmm's main is not running
IdleMain ==
  /\ pc = "off" /\ NoSites
  /\ domain_scores = <<>> /\ random_scores = <<>> /\ p_values = <<>>
  /\ fdr_cutoff = <<0, 1>>
IdleFdr == fdr_args = <<>> /\ fdr_results = {}

Init == InitHMM /\ IdleMain /\ IdleFdr

Next ==
  \/ /\ \E e \in EmissionArgs, d \in DurationArgs :
          set_parameters(e[1], e[2], d[1], d[2])
     /\ UNCHANGED <<main_vars, fdr_vars>>
  \/ BaumWelchTraining /\ UNCHANGED <<main_vars, fdr_vars>>
  \/ training_iteration /\ UNCHANGED <<main_vars, fdr_vars>>
  \/ PosteriorDecoding /\ UNCHANGED <<main_vars, fdr_vars>>

Spec == Init /\ [][Next]_vars

\* a step of training_iteration, told by the loop position and the count
\* of single_iteration() calls
iteration_step ==
  train_pc = "running" /\ single_iterations' = single_iterations + 1

\* BaumWelchTraining is a sequential loop: while it is running, its next
\* loop body is executed
FairSpec == Spec /\ WF_single_iterations(iteration_step)

(***************************************************************************)
(* cthmm.cpp.  Scores, p-values and FDR targets are doubles, held as exact *)
(* fractions <<numerator, denominator>> in lowest terms.  A site is the    *)
(* record [start, end] of its SimpleGenomicRegion (one chromosome).        *)
(***************************************************************************)
FracNorm(n, d) == LET g == GCD(n, d) IN <<n \div g, d \div g>>
FracAdd(a, b) == FracNorm(a[1] * b[2] + b[1] * a[2], a[2] * b[2])
FracLeq(a, b) == ~FracLess(b, a)

\* numeric_limits<double>::max() and numeric_limits<double>::min(): the
\* largest double and the smallest positive normal double
DblMax == <<1000000, 1>>
DblMin == <<1, 1000000>>
\* no value: the call did not return
Fault == <<0, 0>>

\* a line of the input file, after "round(level * coverage)":
\* <<methylated reads, coverage>>
SiteRecords == {<<0, 0>>, <<0, 1>>, <<1, 2>>}
\* the position of the i-th line (sorted, as load_cpgs demands)
Position(i) == 2 * i
InputFiles ==
  {[i \in 1 .. MaxSites |-> <<Position(i), f[i][1], f[i][2]>>] :
     f \in [1 .. MaxSites -> SiteRecords]}

\* load_cpgs(cpgs_file, cpgs, meth, reads, time) on a well-formed file
load_cpgs(file) ==
  [cpgs |-> [i \in DOMAIN file |->
               [start |-> file[i][1], end |-> file[i][1] + 1]],
   reads |-> [i \in DOMAIN file |-> file[i][3]],
   meth |-> [i \in DOMAIN file |-> <<file[i][2], file[i][3] - file[i][2]>>],
   time |-> [i \in DOMAIN file |-> file[i][1]]]

\* the copy loop and the erase of rm_missingdata on one vector v
RECURSIVE rm_loop(_, _, _, _, _)
rm_loop(v, rd, n, i, kept) ==
  IF i >= n THEN kept
  ELSE rm_loop(v, rd, n, i + 1,
               IF rd[i + 1] > 0 THEN Append(kept, v[i + 1]) ELSE kept)

\* rm_missingdata(VERBOSE, cpgs, meth, reads, mytime): the four vectors
\* when it returns; mytime is the function's own copy
rm_missingdata(c, m, rd, mytime) ==
  [cpgs |-> rm_loop(c, rd, Len(c), 0, <<>>),
   meth |-> rm_loop(m, rd, Len(c), 0, <<>>),
   reads |-> rm_loop(rd, rd, Len(c), 0, <<>>),
   mytime |-> rm_loop(mytime, rd, Len(c), 0, <<>>)]

\* TwoVarHMM (2DCTHMM.hpp): the class labels PosteriorDecoding can give
Decodings(m) == [1 .. Len(m) -> {0, 1}]
\* TwoVarHMM (2DCTHMM.hpp): the posterior scores that go with the labels
posterior_scores(cl) ==
  [i \in DOMAIN cl |-> IF cl[i] = 1 THEN <<3, 4>> ELSE <<1, 4>>]

\* 1.0 - (meth[i].first/(meth[i].first + meth[i].second))
site_score(m) == FracNorm((m[1] + m[2]) - m[1], m[1] + m[2])

RECURSIVE domain_scores_loop(_, _, _, _, _, _)
domain_scores_loop(cl, m, i, in_domain, score, sc) ==
  IF i >= Len(cl) THEN sc
  ELSE IF cl[i + 1] = 1
    THEN domain_scores_loop(cl, m, i + 1, TRUE,
                            FracAdd(score, site_score(m[i + 1])), sc)
  ELSE IF in_domain
    THEN domain_scores_loop(cl, m, i + 1, FALSE, <<0, 1>>, Append(sc, score))
  ELSE domain_scores_loop(cl, m, i + 1, in_domain, score, sc)

\* get_domain_scores(classes, meth, scores): scores when it returns
get_domain_scores(cl, m, sc) ==
  domain_scores_loop(cl, m, 0, FALSE, <<0, 1>>, sc)

\* std::sort on doubles
RECURSIVE insert_sorted(_, _)
insert_sorted(q, x) ==
  IF q = <<>> THEN <<x>>
  ELSE IF FracLess(x, Head(q)) THEN <<x>> \o q
  ELSE <<Head(q)>> \o insert_sorted(Tail(q), x)

RECURSIVE sort(_)
sort(q) == IF q = <<>> THEN <<>> ELSE insert_sorted(sort(Tail(q)), Head(q))

Without(q, i) == SubSeq(q, 1, i - 1) \o SubSeq(q, i + 1, Len(q))

\* random_shuffle(meth.begin(), meth.end()): the orders it can leave
RECURSIVE random_shuffle(_)
random_shuffle(q) ==
  IF q = <<>> THEN {<<>>}
  ELSE UNION {{<<q[i]>> \o r : r \in random_shuffle(Without(q, i))} :
                i \in DOMAIN q}

\* shuffle_cpgs(hmm, meth, mytime, domain_scores): the values domain_scores
\* can have when it returns
shuffle_cpgs(m, mytime, ds) ==
  {sort(get_domain_scores(cl, sh, ds)) :
     sh \in random_shuffle(m), cl \in Decodings(m)}

\* variant: the position of the first element not less than val
first_not_less(R, val) ==
  Cardinality({k \in DOMAIN R : FracLess(R[k], val)})

\* std::upper_bound(first, last, val): the binary search for the first
\* element greater than val, as an offset from begin()
RECURSIVE upper_bound_loop(_, _, _, _)
upper_bound_loop(R, val, first, len) ==
  IF len <= 0 THEN first
  ELSE LET half == len \div 2
           middle == first + half
       IN IF FracLess(val, R[middle + 1])
          THEN upper_bound_loop(R, val, first, half)
          ELSE upper_bound_loop(R, val, middle + 1, len - half - 1)

upper_bound(R, val) == upper_bound_loop(R, val, 0, Len(R))

\* random_scores.size() == 0 ? 1 : random_scores.size()
n_randoms(R) == IF Len(R) = 0 THEN 1 ELSE Len(R)

\* assign_p_values(random_scores, observed_scores, p_values): p_values when
\* it returns
assign_p_values(R, observed, pv) ==
  pv \o [i \in 1 .. Len(observed) |->
           FracNorm(Len(R) - upper_bound(R, observed[i]), n_randoms(R))]

\* variant: the loop test of get_fdr_cutoff negated
fdr_test_negated(local, i, fdr) ==
  ~FracLess(local[i + 2], <<fdr[1] * (i + 1), fdr[2] * Len(local)>>)

\* local[i+1] < fdr*static_cast<double>(i+1)/local.size()
fdr_test(local, i, fdr) ==
  FracLess(local[i + 2], <<fdr[1] * (i + 1), fdr[2] * Len(local)>>)

\* the for loop of get_fdr_cutoff on a non-empty list: i when it ends
RECURSIVE fdr_loop(_, _, _)
fdr_loop(local, i, fdr) ==
  IF i < Len(local) - 1 /\ fdr_test(local, i, fdr)
  THEN fdr_loop(local, i + 1, fdr)
  ELSE i

\* get_fdr_cutoff on an empty list with 0 < fdr <= 1: local.size() - 1
\* wraps around, the loop test reads local[1] of an empty vector; the call
\* may not return, or return any double
UndefinedDoubles == {<<0, 1>>, <<1, 2>>, <<1, 1>>}
UndefinedCutoffs == {Fault} \cup UndefinedDoubles

\* get_fdr_cutoff(scores, fdr): the values it can return
get_fdr_cutoff(sc, fdr) ==
  IF FracLeq(fdr, <<0, 1>>) THEN {DblMax}
  ELSE IF FracLess(<<1, 1>>, fdr) THEN {DblMin}
  ELSE IF Len(sc) = 0 THEN UndefinedCutoffs
  ELSE LET local == sort(sc) IN {local[fdr_loop(local, 0, fdr) + 1]}

\* GenomicRegion(cpgs[i]) named "HYPO" + n: a domain is [start, end, name,
\* score], the name held by its number, the score 0 until set_score
GenomicRegion(cpg, n) ==
  [start |-> cpg.start, end |-> cpg.end, name |-> n, score |-> 0]

\* the loop of build_domains; st holds domains and the locals
RECURSIVE build_loop(_, _, _, _, _)
build_loop(c, ps, cl, i, st) ==
  IF i >= Len(cl) THEN st
  ELSE LET opened ==
             IF ~st.in_domain
             THEN [st EXCEPT !.in_domain = TRUE,
                             !.domains = Append(@, GenomicRegion(c[i + 1],
                                                           st.n_domains)),
                             !.n_domains = @ + 1]
             ELSE st
           closed ==
             [st EXCEPT !.in_domain = FALSE,
                        !.domains = [@ EXCEPT ![Len(@)] =
                                       [@ EXCEPT !.end = st.prev_end,
                                                 !.score = st.n_cpgs]],
                        !.n_cpgs = 0,
                        !.score = <<0, 1>>]
           body ==
             IF cl[i + 1] = 1
             THEN [opened EXCEPT !.n_cpgs = @ + 1,
                                 !.score = FracAdd(@, ps[i + 1])]
             ELSE IF st.in_domain THEN closed
             ELSE st
       IN build_loop(c, ps, cl, i + 1,
                     [body EXCEPT !.prev_end = c[i + 1].end])

\* build_domains(VERBOSE, cpgs, post_scores, classes, domains): domains
\* when it returns
build_domains(c, ps, cl, doms) ==
  build_loop(c, ps, cl, 0,
             [domains |-> doms, n_cpgs |-> 0, n_domains |-> 0,
              prev_end |-> 0, in_domain |-> FALSE, score |-> <<0, 1>>]).domains

\* "p_values[i] < fdr_cutoff" in main's output loop: the comparison, or
\* either outcome when i is not an index of p_values
below_cutoff(pv, i, cutoff) ==
  IF i < Len(pv) THEN {FracLess(pv[i + 1], cutoff)} ELSE BOOLEAN

\* "<< p_values[i]" in main's output loop: the value written, any double
\* when i is not an index of p_values
printed_p_value(pv, i) ==
  IF i < Len(pv) THEN {pv[i + 1]} ELSE UndefinedDoubles

\* one line of the output: domains[i] is renamed "HYPO" + good_hmr_count
\* and written with its p-value
write_domain(st, i, p) ==
  LET named == [st.domains[i + 1] EXCEPT !.name = st.good_hmr_count]
  IN [domains |-> [st.domains EXCEPT ![i + 1] = named],
      out |-> Append(st.out, [domain |-> named, p_value |-> p]),
      good_hmr_count |-> st.good_hmr_count + 1]

\* main's output loop from index i on: st holds domains, the lines written
\* and good_hmr_count; the result is the set of the states it can end in
RECURSIVE output_loop(_, _, _, _, _)
output_loop(pv, cutoff, NOFDR, i, st) ==
  IF i >= Len(st.domains) THEN {st}
  ELSE UNION {IF below \/ NOFDR
              THEN UNION {output_loop(pv, cutoff, NOFDR, i + 1,
                                      write_domain(st, i, p)) :
                            p \in printed_p_value(pv, i)}
              ELSE output_loop(pv, cutoff, NOFDR, i + 1, st) :
                below \in below_cutoff(pv, i, cutoff)}

(***************************************************************************)
(* main of cthmm.cpp as a state machine; pc is the statement reached.      *)
(***************************************************************************)
\* the target FDR of main: get_fdr_cutoff(p_values, 0.01)
MainFdr == <<1, 100>>

\* main after load_cpgs
InitMainRun ==
  /\ IdleHMM /\ IdleFdr
  /\ pc = "loaded"
  /\ \E file \in InputFiles :
       /\ cpgs = load_cpgs(file).cpgs /\ meth = load_cpgs(file).meth
       /\ reads = load_cpgs(file).reads /\ time = load_cpgs(file).time
  /\ classes = <<>> /\ scores = <<>> /\ domain_scores = <<>>
  /\ random_scores = <<>> /\ p_values = <<>> /\ fdr_cutoff = DblMax
  /\ domains = <<>> /\ out = <<>>

\* rm_missingdata(VERBOSE, cpgs, meth, reads, time)
main_rm_missingdata ==
  /\ pc = "loaded"
  /\ \E r \in {rm_missingdata(cpgs, meth, reads, time)} :
       cpgs' = r.cpgs /\ meth' = r.meth /\ reads' = r.reads
  /\ pc' = "filtered"
  /\ UNCHANGED <<time, classes, scores, domain_scores, random_scores,
                 p_values, fdr_cutoff, domains, out>>

\* hmm.set_parameters, hmm.BaumWelchTraining(meth, time),
\* hmm.PosteriorDecoding(meth, time, classes, scores)
main_decode ==
  /\ pc = "filtered"
  /\ classes' \in Decodings(meth)
  /\ scores' = posterior_scores(classes')
  /\ pc' = "decoded"
  /\ UNCHANGED <<cpgs, meth, reads, time, domain_scores, random_scores,
                 p_values, fdr_cutoff, domains, out>>

\* get_domain_scores(classes, meth, domain_scores)
main_get_domain_scores ==
  /\ pc = "decoded"
  /\ domain_scores' = get_domain_scores(classes, meth, domain_scores)
  /\ pc' = "scored"
  /\ UNCHANGED <<cpgs, meth, reads, time, classes, scores, random_scores,
                 p_values, fdr_cutoff, domains, out>>

\* shuffle_cpgs(hmm, meth, time, random_scores)
main_shuffle_cpgs ==
  /\ pc = "scored"
  /\ random_scores' \in shuffle_cpgs(meth, time, random_scores)
  /\ pc' = "shuffled"
  /\ UNCHANGED <<cpgs, meth, reads, time, classes, scores, domain_scores,
                 p_values, fdr_cutoff, domains, out>>

\* assign_p_values(random_scores, domain_scores, p_values)
main_assign_p_values ==
  /\ pc = "shuffled"
  /\ p_values' = assign_p_values(random_scores, domain_scores, p_values)
  /\ pc' = "p_valued"
  /\ UNCHANGED <<cpgs, meth, reads, time, classes, scores, domain_scores,
                 random_scores, fdr_cutoff, domains, out>>

\* fdr_cutoff = get_fdr_cutoff(p_values, 0.01)
main_get_fdr_cutoff ==
  /\ pc = "p_valued"
  /\ fdr_cutoff = DblMax
  /\ \E c \in get_fdr_cutoff(p_values, MainFdr) :
       IF c = Fault
       THEN pc' = "fault" /\ UNCHANGED fdr_cutoff
       ELSE pc' = "cut" /\ fdr_cutoff' = c
  /\ UNCHANGED <<cpgs, meth, reads, time, classes, scores, domain_scores,
                 random_scores, p_values, domains, out>>

\* build_domains(VERBOSE, cpgs, scores, classes, domains)
main_build_domains ==
  /\ pc = "cut"
  /\ domains' = build_domains(cpgs, scores, classes, domains)
  /\ pc' = "built"
  /\ UNCHANGED <<cpgs, meth, reads, time, classes, scores, domain_scores,
                 random_scores, p_values, fdr_cutoff, out>>

\* the output loop of main, with the option -f (NOFDR) given or not
main_output ==
  /\ pc = "built"
  /\ \E NOFDR \in BOOLEAN :
       \E st \in output_loop(p_values, fdr_cutoff, NOFDR, 0,
                             [domains |-> domains, out |-> out,
                              good_hmr_count |-> 0]) :
         domains' = st.domains /\ out' = st.out
  /\ pc' = "done"
  /\ UNCHANGED <<cpgs, meth, reads, time, classes, scores, domain_scores,
                 random_scores, p_values, fdr_cutoff>>

NextMain ==
  \/ main_rm_missingdata /\ UNCHANGED <<hmm_vars, fdr_vars>>
  \/ main_decode /\ UNCHANGED <<hmm_vars, fdr_vars>>
  \/ main_get_domain_scores /\ UNCHANGED <<hmm_vars, fdr_vars>>
  \/ main_shuffle_cpgs /\ UNCHANGED <<hmm_vars, fdr_vars>>
  \/ main_assign_p_values /\ UNCHANGED <<hmm_vars, fdr_vars>>
  \/ main_get_fdr_cutoff /\ UNCHANGED <<hmm_vars, fdr_vars>>
  \/ main_build_domains /\ UNCHANGED <<hmm_vars, fdr_vars>>
  \/ main_output /\ UNCHANGED <<hmm_vars, fdr_vars>>

SpecMain == InitMainRun /\ [][NextMain]_vars

(***************************************************************************)
(* assign_p_values and get_fdr_cutoff called on their own.                 *)
(***************************************************************************)
\* domain scores: sums of site scores
ScoreValues == {<<0, 1>>, <<1, 2>>, <<1, 1>>, <<3, 2>>}
ScoreLists == UNION {[1 .. n -> ScoreValues] : n \in 0 .. MaxScores}
\* the null list is sorted by shuffle_cpgs
SortedScoreLists == {sort(q) : q \in ScoreLists}
ObservedLists == UNION {[1 .. n -> ScoreValues] : n \in 0 .. 2}

InitPValues ==
  /\ IdleHMM /\ IdleFdr /\ NoSites
  /\ pc = "assign_p_values"
  /\ random_scores \in SortedScoreLists
  /\ domain_scores \in ObservedLists
  /\ p_values = <<>> /\ fdr_cutoff = DblMax

\* assign_p_values(random_scores, domain_scores, p_values)
call_assign_p_values ==
  /\ pc = "assign_p_values"
  /\ p_values' = assign_p_values(random_scores, domain_scores, p_values)
  /\ pc' = "assigned"
  /\ UNCHANGED <<cpgs, meth, reads, time, classes, scores, domain_scores,
                 random_scores, fdr_cutoff, domains, out>>

NextPValues == call_assign_p_values /\ UNCHANGED <<hmm_vars, fdr_vars>>

SpecPValues == InitPValues /\ [][NextPValues]_vars

\* p-values and target FDRs
PValues == {<<0, 1>>, <<1, 3>>, <<1, 2>>, <<1, 1>>}
PValueLists == UNION {[1 .. n -> PValues] : n \in 0 .. MaxScores}
FdrTargets == {<<-1, 1>>, <<0, 1>>, <<1, 100>>, <<1, 2>>, <<1, 1>>, <<2, 1>>}

InitFdr ==
  /\ IdleHMM /\ NoSites
  /\ pc = "get_fdr_cutoff"
  /\ domain_scores = <<>> /\ random_scores = <<>> /\ p_values = <<>>
  /\ fdr_cutoff = DblMax
  /\ fdr_args \in PValueLists
  /\ fdr_results = {}

\* get_fdr_cutoff(fdr_args, fdr); fdr_results collects what the calls
\* returned
call_get_fdr_cutoff(fdr) ==
  /\ pc = "get_fdr_cutoff"
  /\ \E c \in get_fdr_cutoff(fdr_args, fdr) :
       IF c = Fault
       THEN pc' = "fault" /\ UNCHANGED fdr_results
       ELSE /\ pc' = pc
            /\ fdr_results' = fdr_results \cup {[fdr |-> fdr, cutoff |-> c]}
  /\ UNCHANGED <<cpgs, meth, reads, time, classes, scores, domain_scores,
                 random_scores, p_values, fdr_cutoff, domains, out, fdr_args>>

NextFdr ==
  \E fdr \in FdrTargets : call_get_fdr_cutoff(fdr) /\ UNCHANGED hmm_vars

SpecFdr == InitFdr /\ [][NextFdr]_vars

(***************************************************************************)
(* Properties.                                                             *)
(***************************************************************************)
Terminal == train_pc \in {"converged", "max_iterations_reached"}

\* C1: when the relative score change of an iteration is below the
\* tolerance, training stops and the four model parameters are the ones
\* held immediately before that iteration's single_iteration() call
C1_RollbackOnConvergence ==
  /\ (single_iterations > 0 /\ last_pass.converged) => train_pc = "converged"
  /\ train_pc = "converged" =>
       /\ last_pass.kind = "train" /\ last_pass.converged
       /\ Parameters = last_pass.old

\* the M-step result of a converging iteration differed from the
\* parameters before it, and was discarded
C1_Witness ==
  /\ train_pc = "converged"
  /\ last_pass.refit.fg_emission # last_pass.old.fg_emission
  /\ last_pass.refit.bg_emission # last_pass.old.bg_emission

\* C2: whatever scores the iterations return, single_iteration() runs at
\* most max_iterations times and the loop does not run for ever: as long
\* as each call returns a score (no assertion inside it aborts the
\* process) training ends, converged (the test fired) or with the loop
\* bound exhausted (the test never fired)
C2_TrainingTerminates ==
  /\ [](single_iterations <= max_iterations)
  /\ [](train_pc = "running" => <>(Terminal \/ train_pc = "aborted"))
  /\ [](train_pc = "converged" => last_pass.converged)
  /\ [](train_pc = "max_iterations_reached" =>
          /\ single_iterations = max_iterations
          /\ (single_iterations > 0 => ~last_pass.converged))

\* the loop bound was exhausted after two iterations that did not converge
C2_Witness ==
  /\ train_pc = "max_iterations_reached"
  /\ single_iterations = max_iterations
  /\ max_iterations >= 2

\* C3: in every pass, for every subsequence the forward total and the
\* backward total are the same weight (they sum the same segmentations
\* with the same weights), so the assertion on the two totals never stops
\* a pass
C3_ForwardBackwardAgree ==
  /\ last_pass.kind # "aborted" /\ train_pc # "aborted"
  /\ Len(last_pass.forward_scores) = Len(last_pass.backward_scores)
  /\ last_pass.kind \in {"train", "decode"} =>
       Len(last_pass.forward_scores) = Len(reset_points) - 1
  /\ \A k \in DOMAIN last_pass.forward_scores :
       last_pass.forward_scores[k] = last_pass.backward_scores[k]

\* a build with the assertion compiled in ran a pass over several
\* subsequences, one of them longer than MAX_LEN, and the totals, of
\* positive weight, agreed
C3_Witness ==
  /\ ~NDEBUG /\ last_pass.kind = "train"
  /\ Len(reset_points) > 2
  /\ \E k \in DOMAIN last_pass.forward_scores :
       /\ reset_points[k + 1] - reset_points[k] > MAX_LEN
       /\ last_pass.forward_scores[k][3] > 0
       /\ last_pass.forward_scores[k] = last_pass.backward_scores[k]

\* C4: every foreground segment [beginning, ending) scored by the forward
\* pass, the backward pass or the posterior estimator over [start, end)
\* lies inside [start, end) and has between 1 and MAX_LEN positions
C4_SegmentsBounded ==
  \A t \in last_pass.scored :
    /\ t[2] <= t[4] /\ t[4] < t[5] /\ t[5] <= t[3]
    /\ 1 <= t[5] - t[4] /\ t[5] - t[4] <= MAX_LEN

\* all three passes scored a segment of MAX_LEN positions that touches a
\* reset point inside the array, in a subsequence longer than MAX_LEN
C4_Witness ==
  \A pass \in {"forward", "backward", "posterior"} :
    \E t \in last_pass.scored :
      /\ t[1] = pass
      /\ t[5] - t[4] = MAX_LEN /\ t[3] - t[2] > MAX_LEN
      /\ Len(reset_points) > 2
      /\ (t[4] = t[2] /\ t[2] > 0) \/ (t[5] = t[3] /\ t[3] < N)

\* C5: when the last position is labelled foreground, the domain still
\* open at the end of the labels is closed: its end is the last site's end
\* and its score is the number of positions of the trailing foreground run
C5_TrailingDomainClosed ==
  (pc \in {"built", "done"} /\ classes # <<>> /\ classes[Len(classes)] = 1) =>
    LET last_bg == Max(0, CHOOSE j \in 0 .. Len(classes) :
                            /\ j > 0 => classes[j] = 0
                            /\ \A i \in (j + 1) .. Len(classes) :
                                 classes[i] = 1)
        d == domains[Len(domains)]
    IN /\ d.end = cpgs[Len(cpgs)].end
       /\ d.score = Len(classes) - last_bg

\* C6: the domains are pairwise disjoint and in increasing genomic order,
\* and their scores sum to the number of positions labelled foreground
C6_DomainsPartitionForeground ==
  pc \in {"built", "done"} =>
    /\ \A k \in DOMAIN domains : domains[k].start < domains[k].end
    /\ \A k \in 1 .. (Len(domains) - 1) :
         domains[k].end <= domains[k + 1].start
    /\ SumSeq([k \in DOMAIN domains |-> domains[k].score])
         = Cardinality({i \in DOMAIN classes : classes[i] = 1})

\* C7: for a sorted null list R and an observed score s, the p-value is the
\* number of elements of R strictly greater than s over max(1, |R|); ties
\* are not counted and an empty R gives 0
C7_PValueCountsGreater ==
  pc = "assigned" =>
    /\ Len(p_values) = Len(domain_scores)
    /\ \A i \in DOMAIN domain_scores :
         p_values[i] =
           FracNorm(Cardinality({k \in DOMAIN random_scores :
                                   FracLess(domain_scores[i], random_scores[k])}),
                    Max(1, Len(random_scores)))

\* a p-value was assigned to a score with a smaller, an equal and a greater
\* null score
C7_Witness ==
  /\ pc = "assigned"
  /\ \E i \in DOMAIN domain_scores :
       /\ \E k \in DOMAIN random_scores :
            FracLess(random_scores[k], domain_scores[i])
       /\ \E k \in DOMAIN random_scores :
            random_scores[k] = domain_scores[i]
       /\ \E k \in DOMAIN random_scores :
            FracLess(domain_scores[i], random_scores[k])
       /\ p_values[i] # <<0, 1>>

\* C8 as stated: over all targets, q1 <= q2 implies cutoff(q1) <= cutoff(q2),
\* with the maximum double for q <= 0 and the minimum double for q > 1
C8_CutoffMonotoneAllTargets ==
  \A a \in fdr_results :
    /\ FracLeq(a.fdr, <<0, 1>>) => a.cutoff = DblMax
    /\ FracLess(<<1, 1>>, a.fdr) => a.cutoff = DblMin
    /\ \A b \in fdr_results :
         FracLeq(a.fdr, b.fdr) => FracLeq(a.cutoff, b.cutoff)

\* C8, amended: for a non-empty p-value list, q1 <= q2 implies
\* cutoff(q1) <= cutoff(q2) over the targets 0 < q1 <= q2 <= 1; outside
\* that range the result is the maximum double for q <= 0 and the smallest
\* positive double for q > 1, whatever the list
C8_CutoffMonotoneInRange ==
  /\ \A a \in fdr_results :
       /\ FracLeq(a.fdr, <<0, 1>>) => a.cutoff = DblMax
       /\ FracLess(<<1, 1>>, a.fdr) => a.cutoff = DblMin
  /\ fdr_args # <<>> =>
       \A a \in fdr_results : \A b \in fdr_results :
         (FracLess(<<0, 1>>, a.fdr) /\ FracLeq(a.fdr, b.fdr)
            /\ FracLeq(b.fdr, <<1, 1>>))
           => FracLeq(a.cutoff, b.cutoff)

\* on one non-empty list a larger target in (0, 1] gave a strictly larger
\* cutoff, and both sentinels were returned
C8_Witness ==
  /\ fdr_args # <<>>
  /\ \E a \in fdr_results : \E b \in fdr_results :
       /\ FracLess(<<0, 1>>, a.fdr) /\ FracLess(a.fdr, b.fdr)
       /\ FracLeq(b.fdr, <<1, 1>>)
       /\ FracLess(a.cutoff, b.cutoff)
  /\ \E a \in fdr_results : a.cutoff = DblMax
  /\ \E a \in fdr_results : a.cutoff = DblMin

\* C9: a state whose run-length sample is empty keeps its duration model
\* through the M-step; a state with a sample gets the estimate of its own
\* sample
C9_EmptySampleKeepsDuration ==
  last_pass.kind = "train" =>
    /\ last_pass.fg_lengths = <<>> =>
         last_pass.refit.fg_duration = last_pass.old.fg_duration
    /\ last_pass.bg_lengths = <<>> =>
         last_pass.refit.bg_duration = last_pass.old.bg_duration
    /\ last_pass.fg_lengths # <<>> =>
         last_pass.refit.fg_duration = estimate_params_ml(last_pass.fg_lengths)
    /\ last_pass.bg_lengths # <<>> =>
         last_pass.refit.bg_duration = estimate_params_ml(last_pass.bg_lengths)

\* an M-step ran with an empty foreground sample
C9_Witness ==
  /\ last_pass.kind = "train"
  /\ last_pass.fg_lengths = <<>>
  /\ last_pass.old.fg_duration \in DurationParams

\* C10: whenever a pass can start, and whenever one started, the
\* likelihood arrays are the prefix sums of the emission models held
C10_LikelihoodFresh ==
  /\ fg_emission # NoParams => ~stale_likelihood
  /\ last_pass.kind # "none" => ~last_pass.stale

\* a second iteration ran on refitted emissions and then rolled back an
\* M-step that had changed the foreground emission
C10_Witness ==
  /\ train_pc = "converged"
  /\ single_iterations >= 2
  /\ last_pass.refit.fg_emission # fg_emission
  /\ ~last_pass.stale

\* C11: once rm_missingdata has returned to main, the positions, the
\* observations, the read counts and the time index all hold the sites with
\* reads > 0 and only those, in the order of the file: they have one length
\* and index i is the same site in each
C11_ArraysFilteredAlike ==
  pc \notin {"off", "loaded", "assign_p_values", "assigned", "get_fdr_cutoff"} =>
    /\ Len(meth) = Len(cpgs) /\ Len(reads) = Len(cpgs)
    /\ Len(time) = Len(cpgs)
    /\ \A i \in DOMAIN cpgs :
         /\ reads[i] > 0
         /\ meth[i][1] + meth[i][2] = reads[i]
         /\ i \in DOMAIN time /\ time[i] = cpgs[i].start
    /\ \A i \in 1 .. (Len(cpgs) - 1) : cpgs[i].start < cpgs[i + 1].start

(***************************************************************************)
(* The run-length collection of estimate_parameters called on its own, on  *)
(* posteriors drawn from a small set.                                      *)
(***************************************************************************)
\* posterior probabilities of the foreground at one position
PosteriorValues == {<<1, 0, 4, 0>>, <<1, 0, 2, 0>>, <<3, 0, 4, 0>>}

InitRuns ==
  /\ IdleMain /\ IdleFdr
  /\ observations = [i \in 1 .. MaxObs |-> <<9, 1>>]
  /\ reset_points \in ResetPoints(Len(observations))
  /\ MAX_LEN = 1 /\ tolerance = <<0, 1>> /\ max_iterations = 0
  /\ NDEBUG = FALSE
  /\ fg_emission = NoParams /\ bg_emission = NoParams
  /\ fg_duration = NoParams /\ bg_duration = NoParams
  /\ fg_log_likelihood = [i \in Idx |-> ZeroLog]
  /\ bg_log_likelihood = [i \in Idx |-> ZeroLog]
  /\ forward = [i \in Idx |-> Pair(ZeroLog, ZeroLog)]
  /\ backward = [i \in Idx |-> Pair(ZeroLog, ZeroLog)]
  /\ fg_posteriors \in [Idx -> PosteriorValues]
  /\ bg_posteriors = [i \in Idx |->
                        ExpDiff(<<fg_posteriors[i][3] - fg_posteriors[i][1], 0, 0>>,
                                <<fg_posteriors[i][3], 0, 0>>)]
  /\ train_pc = "estimate_parameters" /\ itr = 0 /\ prev_total = 0
  /\ single_iterations = 0
  /\ last_pass = NoPass

\* lines 371-394 of estimate_parameters: fg_lengths and bg_lengths
collect_run_lengths ==
  /\ train_pc = "estimate_parameters"
  /\ \E ls \in {run_lengths([fg |-> fg_posteriors, bg |-> bg_posteriors])} :
       last_pass' = [NoPass EXCEPT !.kind = "lengths",
                                   !.fg_lengths = ls.fg, !.bg_lengths = ls.bg]
  /\ train_pc' = "collected"
  /\ UNCHANGED <<config_vars, fg_emission, bg_emission, fg_duration,
                 bg_duration, fg_log_likelihood, bg_log_likelihood,
                 table_vars, itr, prev_total, single_iterations>>

NextRuns == collect_run_lengths /\ UNCHANGED <<main_vars, fdr_vars>>

SpecRuns == InitRuns /\ [][NextRuns]_vars

\* C12: every maximal run of equal hard labels inside a subsequence gives
\* one sample, its length, to the sample of its state: the samples count
\* the runs, hold each run's length, and sum to the number of positions
C12_EveryRunSampled ==
  train_pc = "collected" =>
    LET label(i) == PostLess(bg_posteriors[i], fg_posteriors[i])
        starts == {reset_points[k] : k \in 1 .. (Len(reset_points) - 1)}
        run_start(i) == i \in starts \/ label(i) # label(i - 1)
        run_end(i) == CHOOSE e \in (i + 1) .. N :
                        /\ e = N \/ run_start(e)
                        /\ \A j \in (i + 1) .. (e - 1) : ~run_start(j)
        runs(st) == {i \in Idx : run_start(i) /\ label(i) = st}
        in_seq(q, v) == \E k \in DOMAIN q : q[k] = v
    IN /\ Len(last_pass.fg_lengths) = Cardinality(runs(TRUE))
       /\ Len(last_pass.bg_lengths) = Cardinality(runs(FALSE))
       /\ \A i \in runs(TRUE) : in_seq(last_pass.fg_lengths, run_end(i) - i)
       /\ \A i \in runs(FALSE) : in_seq(last_pass.bg_lengths, run_end(i) - i)
       /\ SumSeq(last_pass.fg_lengths) + SumSeq(last_pass.bg_lengths) = N

\* C13: after forward_algorithm(start, end), for start < i < end the value
\* forward[i].first is the sum of one term per candidate segment start j
\* in the last min(i - start + 1, MAX_LEN) positions (entry weight lp_sf
\* when j = start, else forward[j-1].second + switch_lp; segment likelihood
\* of [j, i]; duration density of i - j + 1) and of nothing else: neither
\* the 0.0 the table is filled with nor a value of an earlier pass adds
\* mass
C13_ForwardSumsCandidatesOnly ==
  last_pass.kind = "decode" =>
    \A k \in 1 .. (Len(reset_points) - 1) :
      \A i \in (reset_points[k] + 1) .. (reset_points[k + 1] - 1) :
        LET start == reset_points[k]
            term(j) ==
              LogAdd3(IF j = start THEN lp_sf
                      ELSE LogAdd(forward[j - 1].second, switch_lp),
                      fg_segment_log_likelihood(j, i + 1),
                      duration_ll(fg_duration, i - j + 1))
            RECURSIVE sum_from(_)
            sum_from(j) ==
              IF j > i THEN <<0, 0, 0>> ELSE WSum(term(j), sum_from(j + 1))
        IN forward[i].first = sum_from(i - Min(i - start + 1, MAX_LEN) + 1)

\* a decoding over a subsequence of three or more positions with
\* MAX_LEN >= 2: forward[start + 2].first sums two candidate starts
C13_Witness ==
  /\ last_pass.kind = "decode" /\ MAX_LEN >= 2
  /\ \E k \in 1 .. (Len(reset_points) - 1) :
       /\ reset_points[k + 1] - reset_points[k] >= 3
       /\ forward[reset_points[k] + 2].first[1] > 0
       /\ forward[reset_points[k] + 2].first # ZeroLog

\* C14: the observed domain scores, and so the p-values, are as many as
\* the domains of build_domains, the k-th score being the score of the
\* sites of the k-th domain, so that the output loop reads p_values only
\* at indices of the list
C14_OnePValuePerDomain ==
  pc \in {"built", "done"} =>
    LET RECURSIVE run_score(_, _)
        run_score(k, i) ==
          IF i > Len(classes) THEN <<0, 1>>
          ELSE IF /\ classes[i] = 1
                  /\ domains[k].start <= cpgs[i].start
                  /\ (k < Len(domains) => cpgs[i].start < domains[k + 1].start)
               THEN FracAdd(site_score(meth[i]), run_score(k, i + 1))
               ELSE run_score(k, i + 1)
    IN /\ Len(domain_scores) = Len(domains)
       /\ Len(p_values) = Len(domains)
       /\ \A k \in DOMAIN domains :
            /\ k \in DOMAIN domain_scores
            /\ domain_scores[k] = run_score(k, 1)

\* C15: for every p-value list, the empty one included, and every target
\* 0 < q <= 1, get_fdr_cutoff returns, having read only inside the sorted
\* list, the sorted element at the first index i where i is the last index
\* or p[i+1] < q*(i+1)/n fails
C15_CutoffInsideList ==
  /\ pc # "fault"
  /\ \A a \in fdr_results :
       (FracLess(<<0, 1>>, a.fdr) /\ FracLeq(a.fdr, <<1, 1>>)) =>
         /\ Len(fdr_args) > 0
         /\ LET local == sort(fdr_args)
                n == Len(local)
                stop(i) ==
                  \/ i >= n - 1
                  \/ ~FracLess(local[i + 2], <<a.fdr[1] * (i + 1), a.fdr[2] * n>>)
                idx == CHOOSE i \in 0 .. (n - 1) :
                         stop(i) /\ \A j \in 0 .. (i - 1) : ~stop(j)
            IN a.cutoff = local[idx + 1]

=============================================================================
